---- MODULE Spec2Model ----
(***************************************************************************)
(* A model of dask/distributed/node.py: one Worker, its two listening      *)
(* loops, its thread pool, its data store and the collect/compute          *)
(* protocols.  The coordinator and the peers are the environment.          *)
(***************************************************************************)
EXTENDS Integers, Sequences, FiniteSets, TLC

\* ------------------------------------------------------------------ bounds
\* Number of requests the environment (coordinator and peers) sends.
MaxReq == 2

\* ------------------------------------------------------------- vocabulary
Threads == {"t1", "t2"}            \* the ThreadPool's worker threads
Self == "tcp://self"               \* self.address
Peers == {"alice", "bob"}          \* addresses of the other workers
Keys == {"x", "y", "z"}
Closers == {"c1", "c2"}            \* the threads that may call close()
None == "None"
Registry == {"status", "collect", "compute", "getitem", "setitem", "delitem"}

\* Values carried in payloads and kept in the data store.
IntV(n) == [kind |-> "int", n |-> n, s |-> "", st |-> ""]
StrV(s) == [kind |-> "str", n |-> 0, s |-> s, st |-> ""]
ExcV(s) == [kind |-> "exc", n |-> 0, s |-> s, st |-> ""]
NoneV == [kind |-> "none", n |-> 0, s |-> "", st |-> ""]
\* The record compute returns: {'key', 'duration', 'status'}.
OutcomeV(key, st) == [kind |-> "outcome", n |-> 0, s |-> key, st |-> st]

\* What each peer holds.
PeerData == [alice |-> [x |-> IntV(1)], bob |-> [y |-> IntV(2)]]

\* header.get(k, d)
Get(h, k, d) == IF k \in DOMAIN h THEN h[k] ELSE d

\* Header statuses: 'OK', 'Error', 'Function %s not found' % func.
StatusOK == [text |-> "OK", arg |-> ""]
StatusError == [text |-> "Error", arg |-> ""]
StatusNotFound(func) == [text |-> "Function %s not found", arg |-> func]

JobIdOf == <<"j1", "j2", "j3", "j4">>

\* ------------------------------------------------------------------ state
VARIABLES
  status,      \* self.status: "run" or "closed"
  poolState,   \* self.pool._state: "RUN" or "CLOSE"
  data,        \* self.data: the data store, a function on the keys it holds
  dealerIn,    \* messages from the scheduler waiting on self.dealer
  routerIn,    \* messages from peers waiting on self.router
  dealerOut,   \* messages sent on self.dealer, in order
  routerOut,   \* messages sent on self.router, in order
  lock,        \* self.lock: "free" or the thread holding it
  taskq,       \* units handed to self.pool.apply_async, not yet picked up
  thr,         \* the pool's threads, each running at most one unit
  loopS,       \* position of the listen_to_scheduler thread
  loopW,       \* position of the listen_to_workers thread
  wire,        \* getitem requests of collect on their way to other workers
  sockIn,      \* replies waiting on the sockets collect opened
  sent,        \* the requests the environment has sent so far, in order
  workload,    \* what the environment sends in this run
  closer       \* where the caller of close() is

vars == <<status, poolState, data, dealerIn, routerIn, dealerOut, routerOut,
          lock, taskq, thr, loopS, loopW, wire, sockIn, sent, workload, closer>>

\* A socket identity, as the ROUTER sees it in the address frame.
Sock(owner, tag) == [owner |-> owner, tag |-> tag]
NoSock == Sock("", "")

NoUnit == [func |-> "", args |-> <<>>, jobid |-> None, send |-> "none",
           to |-> NoSock, rid |-> 0]
NoHeader == [jobid |-> None, status |-> StatusOK]
IdleThread == [pc |-> "idle", unit |-> NoUnit, header |-> NoHeader,
               result |-> NoneV, todo |-> {}, socks |-> <<>>]

\* Mutant: a key the store already holds keeps its value (dict.setdefault).
Put_KeepExisting(d, k, v) ==
  [kk \in DOMAIN d \cup {k} |-> IF kk \in DOMAIN d THEN d[kk] ELSE v]

\* self.data[k] = v
Put(d, k, v) == [kk \in DOMAIN d \cup {k} |-> IF kk = k THEN v ELSE d[kk]]
\* del self.data[k]
Del(d, k) == [kk \in DOMAIN d \ {k} |-> d[kk]]

\* ------------------------------------------------------------ environment
\* The stores a Worker may be constructed with.
InitialData == { <<>>, [x |-> IntV(5)] }

\* The headers a sender may attach to its n-th request: none of the optional
\* fields, a job id, or a job id and reply = False.
Header(hk, n) ==
  CASE hk = "bare" -> <<>>
    [] hk = "jobid" -> [jobid |-> JobIdOf[n]]
    [] hk = "noreply" -> [jobid |-> JobIdOf[n], reply |-> FALSE]

\* A key among the positional arguments of a call.
KeyArg(k) == [key |-> k]

\* A task is [op, refs]; locations map a key to the addresses holding it.
AddXY == [op |-> "add", refs |-> <<"x", "y">>]
Raise == [op |-> "raise", refs |-> <<>>]

\* The payloads the environment sends.
Payloads ==
  << [function |-> "status", args |-> <<>>],
     [function |-> "bogus", args |-> <<>>],
     [function |-> "getitem", args |-> <<KeyArg("x")>>],
     [function |-> "setitem", args |-> <<KeyArg("x"), IntV(7)>>],
     [function |-> "delitem", args |-> <<KeyArg("x")>>],
     [function |-> "compute",
      args |-> <<KeyArg("z"), AddXY, [x |-> {"alice"}, y |-> {"bob"}]>>],
     [function |-> "compute", args |-> <<KeyArg("z"), Raise, [x |-> {"alice"}]>>],
     [function |-> "collect", args |-> << [x |-> {"alice", "bob"}] >>],
     [function |-> "collect", args |-> << [y |-> {Self}] >>],
     [args |-> <<>>] >>

\* The workloads: who sends, with which header, which payload.
\*   route:   getitem from the scheduler and from the peers, all headers;
\*   store:   the registry's calls on the store and an unknown function;
\*   compute: collect and compute, with a delitem beside them;
\*   quiet:   collect and compute with reply = False;
\*   own:     collect of a key the node itself is said to hold;
\*   shutdown: requests of the scheduler and of a peer while the node's owner
\*            calls close();
\*   reclose: requests of the scheduler while two threads call close();
\*   garbled: a payload that names no function, a peer's header that gives
\*            no address.
Workloads == {"route", "store", "compute", "quiet", "own", "shutdown",
              "reclose", "garbled"}
Menu(w) ==
  CASE w = "route" ->
         [src : {"scheduler"}, hk : {"bare", "jobid", "noreply"}, p : {3}]
           \cup [src : Peers, hk : {"jobid"}, p : {3}]
           \cup [src : {"alice"}, hk : {"noreply"}, p : {3}]
    [] w = "store" ->
         [src : {"scheduler"}, hk : {"jobid"}, p : 1..5]
           \cup [src : {"scheduler"}, hk : {"noreply"}, p : {2, 3, 4}]
    [] w = "compute" ->
         [src : {"scheduler"}, hk : {"jobid"}, p : 5..8]
    [] w = "quiet" ->
         [src : {"scheduler"}, hk : {"noreply"}, p : {6, 7, 8}]
    [] w = "own" ->
         [src : {"scheduler"}, hk : {"jobid"}, p : {9}]
    [] w = "shutdown" ->
         [src : {"scheduler"}, hk : {"jobid"}, p : {1, 3}]
           \cup [src : {"alice"}, hk : {"jobid"}, p : {3}]
    [] w = "reclose" ->
         [src : {"scheduler"}, hk : {"jobid"}, p : {3}]
    [] w = "garbled" ->
         [src : {"scheduler"}, hk : {"jobid"}, p : {1, 10}]
           \cup [src : {"anon"}, hk : {"jobid"}, p : {1}]

\* The threads that call close() in a workload.
ClosersOf(w) ==
  CASE w = "shutdown" -> {"c1"}
    [] w = "reclose" -> Closers
    [] OTHER -> {}

Init ==
  /\ status = "run"
  /\ poolState = "RUN"
  /\ data \in InitialData
  /\ dealerIn = <<>>
  /\ routerIn = <<>>
  /\ dealerOut = << [header |-> <<>>, payload |-> StrV("Register"), rid |-> 0] >>
  /\ routerOut = <<>>
  /\ lock = "free"
  /\ taskq = <<>>
  /\ thr = [t \in Threads |-> IdleThread]
  /\ loopS = "check"
  /\ loopW = "check"
  /\ wire = {}
  /\ sockIn = {}
  /\ sent = <<>>
  /\ workload \in Workloads
  /\ closer = [c \in Closers |-> "none"]

\* The environment sends one more request: the scheduler on the dealer, or a
\* peer on the router (the ROUTER prepends the sender's socket identity).
Send(src, header, payload) ==
  /\ Len(sent) < MaxReq
  /\ LET rid == Len(sent) + 1 IN
     /\ sent' = Append(sent, [src |-> src, header |-> header, payload |-> payload])
     /\ IF src = "scheduler"
        THEN /\ dealerIn' = Append(dealerIn,
                   [header |-> header, payload |-> payload, rid |-> rid])
             /\ UNCHANGED routerIn
        ELSE /\ routerIn' = Append(routerIn,
                   [address |-> Sock(src, "env"),
                    header |-> IF src \in Peers
                               THEN [k \in DOMAIN header \cup {"address"} |->
                                       IF k = "address" THEN src ELSE header[k]]
                               ELSE header,
                    payload |-> payload, rid |-> rid])
             /\ UNCHANGED dealerIn
  /\ UNCHANGED <<status, poolState, data, dealerOut, routerOut, lock, taskq,
                 thr, loopS, loopW, wire, sockIn, workload, closer>>

SendRequest ==
  \E m \in Menu(workload) :
    Send(m.src, Header(m.hk, Len(sent) + 1), Payloads[m.p])

\* --------------------------------------------------------------- dispatch
\* Mutant: the job id is looked up in the payload, where the docstring of
\* listen_to_scheduler puts it, and not in the header.
UnpackFunction_JobidFromPayload(msg, sink, to) ==
  [func |-> msg.payload.function,
   args |-> Get(msg.payload, "args", <<>>),
   jobid |-> Get(msg.payload, "jobid", None),
   send |-> IF Get(msg.header, "reply", TRUE) THEN sink ELSE "none",
   to |-> IF Get(msg.header, "reply", TRUE) THEN to ELSE NoSock,
   rid |-> msg.rid]

\* unpack_function: jobid defaults to None, reply to True, args to (); the
\* payload must name a function.  The unit is what apply_async is given.
UnpackFunction(msg, sink, to) ==
  [func |-> msg.payload.function,
   args |-> Get(msg.payload, "args", <<>>),
   jobid |-> Get(msg.header, "jobid", None),
   send |-> IF Get(msg.header, "reply", TRUE) THEN sink ELSE "none",
   to |-> IF Get(msg.header, "reply", TRUE) THEN to ELSE NoSock,
   rid |-> msg.rid]

\* Whether unpack_function (and the log line after it) raises on msg.
Decodes(msg, needAddress) ==
  /\ "function" \in DOMAIN msg.payload
  /\ needAddress => "address" \in DOMAIN msg.header

\* Mutant: the loops run "while True".
LoopTest_Forever(st) == "poll"

\* The test of both loops: on to the poll, or out of the loop.
LoopTest(st) == IF st # "closed" THEN "poll" ELSE "stopped"

\* while self.status != 'closed':
ListenSchedulerCheck ==
  /\ loopS = "check"
  /\ loopS' = LoopTest(status)
  /\ UNCHANGED <<status, poolState, data, dealerIn, routerIn, dealerOut,
                 routerOut, lock, taskq, thr, loopW, wire, sockIn, sent, workload, closer>>

\* One poll of the dealer.  On a timeout ("continue") the loop's test is made
\* again, here in the same step; a message is received, unpacked and handed
\* to the pool.  A failure in unpack_function or in apply_async (the pool is
\* no longer running) ends the thread.
ListenSchedulerPoll ==
  /\ loopS = "poll"
  /\ IF dealerIn = <<>>
     THEN /\ loopS' = LoopTest(status)
          /\ UNCHANGED <<dealerIn, taskq>>
     ELSE LET msg == Head(dealerIn) IN
          /\ dealerIn' = Tail(dealerIn)
          /\ IF Decodes(msg, FALSE) /\ poolState = "RUN"
             THEN /\ taskq' = Append(taskq, UnpackFunction(msg, "scheduler", NoSock))
                  /\ loopS' = "check"
             ELSE /\ loopS' = "crashed"
                  /\ UNCHANGED taskq
  /\ UNCHANGED <<status, poolState, data, routerIn, dealerOut, routerOut,
                 lock, thr, loopW, wire, sockIn, sent, workload, closer>>

ListenWorkersCheck ==
  /\ loopW = "check"
  /\ loopW' = LoopTest(status)
  /\ UNCHANGED <<status, poolState, data, dealerIn, routerIn, dealerOut,
                 routerOut, lock, taskq, thr, loopS, wire, sockIn, sent, workload, closer>>

\* One poll of the router; the reply sink is send_to_worker(address), the
\* address being the first frame of the message.
ListenWorkersPoll ==
  /\ loopW = "poll"
  /\ IF routerIn = <<>>
     THEN /\ loopW' = LoopTest(status)
          /\ UNCHANGED <<routerIn, taskq>>
     ELSE LET msg == Head(routerIn) IN
          /\ routerIn' = Tail(routerIn)
          /\ IF Decodes(msg, TRUE) /\ poolState = "RUN"
             THEN /\ taskq' = Append(taskq, UnpackFunction(msg, "worker", msg.address))
                  /\ loopW' = "check"
             ELSE /\ loopW' = "crashed"
                  /\ UNCHANGED taskq
  /\ UNCHANGED <<status, poolState, data, dealerIn, dealerOut, routerOut,
                 lock, thr, loopS, wire, sockIn, sent, workload, closer>>

\* A free pool thread takes the oldest unit and starts execute_and_reply.
Pickup(t) ==
  /\ thr[t].pc = "idle"
  /\ taskq # <<>>
  /\ thr' = [thr EXCEPT ![t] = [IdleThread EXCEPT !.pc = "exec", !.unit = Head(taskq)]]
  /\ taskq' = Tail(taskq)
  /\ UNCHANGED <<status, poolState, data, dealerIn, routerIn, dealerOut,
                 routerOut, lock, loopS, loopW, wire, sockIn, sent, workload, closer>>

\* -------------------------------------------------------- execute_and_reply
\* Mutant: getitem and delitem behave as dict.get and dict.pop(k, None).
Call_SilentDefault(func, args, d) ==
  CASE func = "status" -> [ok |-> TRUE, result |-> StrV("OK"), data |-> d]
    [] func = "getitem" ->
         [ok |-> TRUE,
          result |-> IF args[1].key \in DOMAIN d THEN d[args[1].key] ELSE NoneV,
          data |-> d]
    [] func = "setitem" ->
         [ok |-> TRUE, result |-> NoneV, data |-> Put(d, args[1].key, args[2])]
    [] func = "delitem" ->
         [ok |-> TRUE, result |-> NoneV, data |-> Del(d, args[1].key)]

\* The registry's handlers on the store: self.functions[func](*args).
\* [ok, result, data]: whether the call returned, what it returned or raised,
\* and the store after it.
Call(func, args, d) ==
  CASE func = "status" ->
         IF Len(args) = 0
         THEN [ok |-> TRUE, result |-> StrV("OK"), data |-> d]
         ELSE [ok |-> FALSE, result |-> ExcV("TypeError"), data |-> d]
    [] func = "getitem" ->
         IF Len(args) # 1
         THEN [ok |-> FALSE, result |-> ExcV("TypeError"), data |-> d]
         ELSE IF args[1].key \in DOMAIN d
         THEN [ok |-> TRUE, result |-> d[args[1].key], data |-> d]
         ELSE [ok |-> FALSE, result |-> ExcV("KeyError"), data |-> d]
    [] func = "setitem" ->
         IF Len(args) # 2
         THEN [ok |-> FALSE, result |-> ExcV("TypeError"), data |-> d]
         ELSE [ok |-> TRUE, result |-> NoneV, data |-> Put(d, args[1].key, args[2])]
    [] func = "delitem" ->
         IF Len(args) # 1
         THEN [ok |-> FALSE, result |-> ExcV("TypeError"), data |-> d]
         ELSE IF args[1].key \in DOMAIN d
         THEN [ok |-> TRUE, result |-> NoneV, data |-> Del(d, args[1].key)]
         ELSE [ok |-> FALSE, result |-> ExcV("KeyError"), data |-> d]

\* Mutant: every KeyError is taken for a failed lookup in self.functions.
RaisedStatus_NoRegistryTest(func) == StatusNotFound(func)

\* The status execute_and_reply gives a call that raised: the lookup in
\* self.functions failed, or the handler itself raised.
RaisedStatus(func) ==
  IF func \notin Registry THEN StatusNotFound(func) ELSE StatusError

\* Mutant: the sink is called without the test "if send is not None" and a
\* unit without a sink answers the scheduler.
Finished_AlwaysSends(rec, st, result) ==
  [rec EXCEPT !.pc = "reply",
              !.header = [jobid |-> rec.unit.jobid, status |-> st],
              !.result = result, !.todo = {}, !.socks = <<>>,
              !.unit = [rec.unit EXCEPT !.send =
                          IF rec.unit.send = "none" THEN "scheduler" ELSE rec.unit.send]]

\* header = {'jobid': jobid, 'status': status}; then send(header, result) if a
\* sink was given, else the unit is over.
Finished(rec, st, result) ==
  IF rec.unit.send = "none"
  THEN IdleThread
  ELSE [rec EXCEPT !.pc = "reply",
                   !.header = [jobid |-> rec.unit.jobid, status |-> st],
                   !.result = result, !.todo = {}, !.socks = <<>>]

\* A unit whose function is not collect or compute: one call, no blocking.
ExecuteCall(t) ==
  /\ thr[t].pc = "exec"
  /\ thr[t].unit.func \notin {"collect", "compute"}
  /\ LET u == thr[t].unit IN
     IF u.func \notin Registry
     THEN /\ thr' = [thr EXCEPT ![t] =
                       Finished(thr[t], RaisedStatus(u.func), ExcV("KeyError"))]
          /\ UNCHANGED data
     ELSE LET c == Call(u.func, u.args, data) IN
          /\ data' = c.data
          /\ thr' = [thr EXCEPT ![t] =
                       Finished(thr[t],
                                IF c.ok THEN StatusOK ELSE RaisedStatus(u.func),
                                c.result)]
  /\ UNCHANGED <<status, poolState, dealerIn, routerIn, dealerOut, routerOut,
                 lock, taskq, loopS, loopW, wire, sockIn, sent, workload, closer>>

\* Mutant: the sinks send without "with self.lock".
AcquireLock_NoLock(t) ==
  /\ thr[t].pc = "reply"
  /\ lock' = t
  /\ thr' = [thr EXCEPT ![t].pc = "sending",
                        ![t].header = [jobid |-> thr[t].header.jobid,
                                       status |-> thr[t].header.status,
                                       address |-> Self]]
  /\ UNCHANGED <<status, poolState, data, dealerIn, routerIn, dealerOut,
                 routerOut, taskq, loopS, loopW, wire, sockIn, sent, workload, closer>>

\* send_to_scheduler / send_to_worker up to the lock: the header gets the
\* node's address, then the thread waits for self.lock.
AcquireLock(t) ==
  /\ thr[t].pc = "reply"
  /\ lock = "free"
  /\ lock' = t
  /\ thr' = [thr EXCEPT ![t].pc = "sending",
                        ![t].header = [jobid |-> thr[t].header.jobid,
                                       status |-> thr[t].header.status,
                                       address |-> Self]]
  /\ UNCHANGED <<status, poolState, data, dealerIn, routerIn, dealerOut,
                 routerOut, taskq, loopS, loopW, wire, sockIn, sent, workload, closer>>

\* Mutant: send_to_worker writes to the dealer, as send_to_scheduler does.
SinkChannel_AlwaysDealer(u) == "dealer"

\* The channel a unit's sink writes to.
SinkChannel(u) == IF u.send = "scheduler" THEN "dealer" ELSE "router"

\* send_multipart under the lock, then the lock is released and the unit is
\* over.  A message the router sends to a socket of one of this node's own
\* collects arrives on that socket.
SendReply(t) ==
  /\ thr[t].pc = "sending"
  /\ lock = t
  /\ LET u == thr[t].unit IN
     IF SinkChannel(u) = "dealer"
     THEN /\ dealerOut' = Append(dealerOut,
                [header |-> thr[t].header, payload |-> thr[t].result, rid |-> u.rid])
          /\ UNCHANGED <<routerOut, sockIn>>
     ELSE /\ routerOut' = Append(routerOut,
                [address |-> u.to, header |-> thr[t].header,
                 payload |-> thr[t].result, rid |-> u.rid])
          /\ sockIn' = IF u.to.owner \in Threads
                       THEN sockIn \cup {[sock |-> u.to, header |-> thr[t].header,
                                          payload |-> thr[t].result]}
                       ELSE sockIn
          /\ UNCHANGED dealerOut
  /\ lock' = "free"
  /\ thr' = [thr EXCEPT ![t] = IdleThread]
  /\ UNCHANGED <<status, poolState, data, dealerIn, routerIn, taskq, loopS,
                 loopW, wire, sent, workload, closer>>

\* ------------------------------------------------------- collect and compute
\* The locations argument of a collect or compute unit.
Locations(u) == IF u.func = "collect" THEN u.args[1] ELSE u.args[3]

\* dask.core.get(self.data, task): the task's references are looked up in the
\* store and its operation applied; [ok, result].  A task is [op, refs].
Evaluate(d, task) ==
  IF task.op = "add"
        /\ \A i \in 1..Len(task.refs) :
              task.refs[i] \in DOMAIN d /\ d[task.refs[i]].kind = "int"
  THEN LET a == d[task.refs[1]].n
           b == d[task.refs[2]].n
       IN [ok |-> TRUE, result |-> IntV(a + b)]
  ELSE [ok |-> FALSE, result |-> ExcV("EvalError")]

\* collect has returned: a collect unit is over (it returns None), a compute
\* unit goes on to evaluate its task.
CollectDone(rec) ==
  IF rec.unit.func = "collect"
  THEN Finished(rec, StatusOK, NoneV)
  ELSE [rec EXCEPT !.pc = "eval", !.todo = {}, !.socks = <<>>]

\* Mutant: collect returns after its first loop, without the second.
AfterRequest_NoFanIn(rec) ==
  IF rec.todo # {} THEN rec ELSE CollectDone(rec)

\* After one turn of collect's first loop: more keys, or the second loop, or
\* nothing to wait for.
AfterRequest(rec) ==
  IF rec.todo # {} THEN rec
  ELSE IF rec.socks # <<>> THEN [rec EXCEPT !.pc = "fanin"]
  ELSE CollectDone(rec)

\* A collect or compute unit enters collect(locations).
CollectStart(t) ==
  /\ thr[t].pc = "exec"
  /\ thr[t].unit.func \in {"collect", "compute"}
  /\ LET u == thr[t].unit
         arity == IF u.func = "collect" THEN 1 ELSE 3
     IN thr' = [thr EXCEPT ![t] =
                  IF Len(u.args) # arity
                  THEN Finished(thr[t], StatusError, ExcV("TypeError"))
                  ELSE AfterRequest([thr[t] EXCEPT !.pc = "fanout",
                                                   !.todo = DOMAIN Locations(u)])]
  /\ UNCHANGED <<status, poolState, data, dealerIn, routerIn, dealerOut,
                 routerOut, lock, taskq, loopS, loopW, wire, sockIn, sent, workload, closer>>

\* Mutant: the test "if key in self.data: continue" is missing.
MustFetch_Always(d, k) == TRUE

\* Whether collect asks a peer for key k: not when the store holds it.
MustFetch(d, k) == k \notin DOMAIN d

\* One turn of "for key, locs in locations.items()": a key the store holds is
\* skipped; for any other a new DEALER socket sends a getitem request, with
\* the key as job id, to one of locs (random.choice raises on an empty list).
CollectRequest(t, k, p) ==
  /\ thr[t].pc = "fanout"
  /\ k \in thr[t].todo
  /\ LET u == thr[t].unit
         locs == Locations(u)[k]
         rest == [thr[t] EXCEPT !.todo = thr[t].todo \ {k}]
     IN
     IF ~MustFetch(data, k)
     THEN /\ p = "-"
          /\ thr' = [thr EXCEPT ![t] = AfterRequest(rest)]
          /\ UNCHANGED <<routerIn, wire>>
     ELSE IF locs = {}
     THEN /\ p = "-"
          /\ thr' = [thr EXCEPT ![t] =
                       Finished(thr[t], StatusError, ExcV("IndexError"))]
          /\ UNCHANGED <<routerIn, wire>>
     ELSE /\ p \in locs
          /\ thr' = [thr EXCEPT ![t] =
                       AfterRequest([rest EXCEPT !.socks = Append(rest.socks, Sock(t, k))])]
          /\ IF p = Self
             THEN /\ routerIn' = Append(routerIn,
                        [address |-> Sock(t, k),
                         header |-> [address |-> Self, jobid |-> k],
                         payload |-> [function |-> "getitem", args |-> <<KeyArg(k)>>],
                         rid |-> 0])
                  /\ UNCHANGED wire
             ELSE /\ wire' = wire \cup {[sock |-> Sock(t, k), peer |-> p, key |-> k]}
                  /\ UNCHANGED routerIn
  /\ UNCHANGED <<status, poolState, data, dealerIn, dealerOut, routerOut,
                 lock, taskq, loopS, loopW, sockIn, sent, workload, closer>>

\* Another worker serves a getitem request of collect: its execute_and_reply
\* answers with the value it holds, or with the KeyError and status 'Error'.
PeerReply(w) ==
  /\ w \in wire
  /\ wire' = wire \ {w}
  /\ sockIn' = sockIn \cup
       {[sock |-> w.sock,
         header |-> [jobid |-> w.key,
                     status |-> IF w.key \in DOMAIN PeerData[w.peer]
                                THEN StatusOK ELSE StatusError,
                     address |-> w.peer],
         payload |-> IF w.key \in DOMAIN PeerData[w.peer]
                     THEN PeerData[w.peer][w.key] ELSE ExcV("KeyError")]}
  /\ UNCHANGED <<status, poolState, data, dealerIn, routerIn, dealerOut,
                 routerOut, lock, taskq, thr, loopS, loopW, sent, workload, closer>>

\* One turn of "for sock in socks": the reply on the oldest socket is
\* received and its payload stored under the reply's job id.
CollectReceive(t) ==
  /\ thr[t].pc = "fanin"
  /\ \E r \in sockIn :
       /\ r.sock = Head(thr[t].socks)
       /\ sockIn' = sockIn \ {r}
       /\ data' = Put(data, r.header.jobid, r.payload)
       /\ thr' = [thr EXCEPT ![t] =
                    LET rest == [thr[t] EXCEPT !.socks = Tail(thr[t].socks)]
                    IN IF rest.socks = <<>> THEN CollectDone(rest) ELSE rest]
  /\ UNCHANGED <<status, poolState, dealerIn, routerIn, dealerOut, routerOut,
                 lock, taskq, loopS, loopW, wire, sent, workload, closer>>

\* Mutant: the value is stored in a "finally", whether or not get returned.
ComputeStore_Always(d, key, e) == Put(d, key, e.result)

\* "else: self.data[key] = result": the store after the evaluation e.
ComputeStore(d, key, e) == IF e.ok THEN Put(d, key, e.result) ELSE d

\* Mutant: compute has no try/except and the evaluator's exception reaches
\* execute_and_reply.
ComputeReturn_Reraises(rec, key, e) ==
  IF e.ok THEN Finished(rec, StatusOK, OutcomeV(key, "OK"))
  ELSE Finished(rec, StatusError, e.result)

\* compute returns {'key', 'duration', 'status'}, the status being 'OK' or the
\* exception caught; execute_and_reply sees a call that returned.
ComputeReturn(rec, key, e) ==
  Finished(rec, StatusOK, OutcomeV(key, IF e.ok THEN "OK" ELSE e.result.s))

\* compute after collect: the task is evaluated; its value is stored under
\* key only when the evaluation returned; the record carries 'OK' or the
\* exception, and compute itself returns normally.
ComputeEvaluate(t) ==
  /\ thr[t].pc = "eval"
  /\ LET u == thr[t].unit
         key == u.args[1].key
         e == Evaluate(data, u.args[2])
     IN /\ data' = ComputeStore(data, key, e)
        /\ thr' = [thr EXCEPT ![t] = ComputeReturn(thr[t], key, e)]
  /\ UNCHANGED <<status, poolState, dealerIn, routerIn, dealerOut, routerOut,
                 lock, taskq, loopS, loopW, wire, sockIn, sent, workload, closer>>

\* -------------------------------------------------------------------- close
\* close(), called by thread c: the test of the pool's state and
\* self.status = 'closed'.  A call that finds the pool not running returns.
CloseMark(c) ==
  /\ c \in ClosersOf(workload)
  /\ closer[c] = "none"
  /\ IF poolState = "RUN"
     THEN status' = "closed" /\ closer' = [closer EXCEPT ![c] = "marked"]
     ELSE closer' = [closer EXCEPT ![c] = "done"] /\ UNCHANGED status
  /\ UNCHANGED <<poolState, data, dealerIn, routerIn, dealerOut, routerOut,
                 lock, taskq, thr, loopS, loopW, wire, sockIn, sent, workload>>

\* self.pool.close(): the pool takes no more work; what it was given is
\* still executed.
ClosePool(c) ==
  /\ closer[c] = "marked"
  /\ poolState' = "CLOSE"
  /\ closer' = [closer EXCEPT ![c] = "joining"]
  /\ UNCHANGED <<status, data, dealerIn, routerIn, dealerOut, routerOut,
                 lock, taskq, thr, loopS, loopW, wire, sockIn, sent, workload>>

\* What self.pool.join() waits for: the pool's threads have ended, the queue
\* is empty and no unit is being executed.
PoolJoined ==
  /\ taskq = <<>>
  /\ \A t \in Threads : thr[t].pc = "idle"

\* self.pool.join() returns.
CloseJoin(c) ==
  /\ closer[c] = "joining"
  /\ PoolJoined
  /\ closer' = [closer EXCEPT ![c] = "done"]
  /\ UNCHANGED <<status, poolState, data, dealerIn, routerIn, dealerOut,
                 routerOut, lock, taskq, thr, loopS, loopW, wire, sockIn, sent,
                 workload>>

\* ----------------------------------------------------------- specifications
Next ==
  \/ SendRequest
  \/ ListenSchedulerCheck
  \/ ListenSchedulerPoll
  \/ ListenWorkersCheck
  \/ ListenWorkersPoll
  \/ \E t \in Threads : Pickup(t)
  \/ \E t \in Threads : ExecuteCall(t)
  \/ \E t \in Threads : AcquireLock(t)
  \/ \E t \in Threads : SendReply(t)
  \/ \E t \in Threads : CollectStart(t)
  \/ \E t \in Threads, k \in Keys, p \in Peers \cup {Self, "-"} : CollectRequest(t, k, p)
  \/ \E w \in wire : PeerReply(w)
  \/ \E t \in Threads : CollectReceive(t)
  \/ \E t \in Threads : ComputeEvaluate(t)
  \/ \E c \in Closers : CloseMark(c)
  \/ \E c \in Closers : ClosePool(c)
  \/ \E c \in Closers : CloseJoin(c)

Spec == Init /\ [][Next]_vars

\* Fairness: the two listening threads and the pool's threads are scheduled
\* by the operating system and each runs when it can; the other workers
\* answer the requests they are sent; a call of close() that has begun goes
\* on (whether close() is called at all is its caller's choice).
Fairness ==
  /\ WF_vars(ListenSchedulerCheck) /\ WF_vars(ListenSchedulerPoll)
  /\ WF_vars(ListenWorkersCheck) /\ WF_vars(ListenWorkersPoll)
  /\ \A t \in Threads :
       /\ WF_vars(Pickup(t)) /\ WF_vars(ExecuteCall(t))
       /\ WF_vars(AcquireLock(t)) /\ WF_vars(SendReply(t))
       /\ WF_vars(CollectStart(t)) /\ WF_vars(CollectReceive(t))
       /\ WF_vars(ComputeEvaluate(t))
       /\ WF_vars(\E k \in Keys, p \in Peers \cup {Self, "-"} : CollectRequest(t, k, p))
  /\ WF_vars(\E w \in wire : PeerReply(w))
  /\ \A c \in Closers : WF_vars(ClosePool(c)) /\ WF_vars(CloseJoin(c))

FairSpec == Spec /\ Fairness

\* ------------------------------------------------------------------ claims
\* The requests sent so far, by number.
Rids == 1..Len(sent)
\* The function a request names, whether it wants a reply, its job id.
FuncOf(r) == Get(sent[r].payload, "function", None)
WantsReply(r) == Get(sent[r].header, "reply", TRUE)
JobIdOfReq(r) == Get(sent[r].header, "jobid", None)
\* Request r is still on a channel, in the pool's queue or being executed.
Waiting(r) ==
  \/ \E i \in DOMAIN dealerIn : dealerIn[i].rid = r
  \/ \E i \in DOMAIN routerIn : routerIn[i].rid = r
Pending(r) ==
  \/ Waiting(r)
  \/ \E i \in DOMAIN taskq : taskq[i].rid = r
  \/ \E t \in Threads : thr[t].pc # "idle" /\ thr[t].unit.rid = r
\* The messages sent on either channel for request r.
DealerReplies(r) == {i \in DOMAIN dealerOut : dealerOut[i].rid = r}
RouterReplies(r) == {i \in DOMAIN routerOut : routerOut[i].rid = r}
Replied(r) == DealerReplies(r) # {} \/ RouterReplies(r) # {}

C3_ReplySuppression ==
  \A r \in Rids : ~WantsReply(r) => ~Replied(r)

\* A request with reply = False whose handler failed (the function is unknown,
\* or the key is absent) has been executed to its end.
C3_Witness ==
  \E r \in Rids :
    /\ ~WantsReply(r) /\ ~Pending(r)
    /\ \/ FuncOf(r) = "bogus"
       \/ FuncOf(r) = "getitem" /\ "x" \notin DOMAIN data /\ Len(sent) = 1

\* C4: a request of the scheduler is answered on the dealer only, a request
\* of a peer on the router only and to the socket it came from; every reply
\* header carries the node's own address.
C4_ReplyRouting ==
  /\ \A i \in DOMAIN dealerOut :
       dealerOut[i].rid # 0 =>
         /\ sent[dealerOut[i].rid].src = "scheduler"
         /\ dealerOut[i].header.address = Self
  /\ \A i \in DOMAIN routerOut :
       /\ routerOut[i].header.address = Self
       /\ IF routerOut[i].rid # 0
          THEN /\ sent[routerOut[i].rid].src \in Peers
               /\ routerOut[i].address = Sock(sent[routerOut[i].rid].src, "env")
          ELSE routerOut[i].address.owner \in Threads

\* Requests of two peers and of the scheduler have been answered, the second
\* peer before the first.
C4_Witness ==
  /\ Len(routerOut) = 2
  /\ routerOut[1].rid = 2 /\ routerOut[1].address = Sock("bob", "env")
  /\ routerOut[2].rid = 1 /\ routerOut[2].address = Sock("alice", "env")

\* C9: a request for a function that is not registered is answered with a
\* status that is neither 'OK' nor 'Error' and names the function; getitem and
\* delitem on an absent key are answered 'Error'; in both cases the exception
\* is caught in execute_and_reply: the thread goes on to send the reply (or,
\* without a sink, to the next unit).
C9_UnknownFunction ==
  /\ [](\A i \in DOMAIN dealerOut :
          dealerOut[i].rid # 0 =>
            LET f == FuncOf(dealerOut[i].rid)
                st == dealerOut[i].header.status
            IN /\ f \notin Registry =>
                    /\ st.text \notin {"OK", "Error"}
                    /\ st.arg = f
                    /\ dealerOut[i].payload.kind = "exc"
               /\ f \in Registry => st.text \in {"OK", "Error"}
               /\ f \in {"getitem", "delitem"} =>
                    (dealerOut[i].payload.kind = "exc" <=> st = StatusError))
  /\ [][\A t \in Threads :
          ( /\ thr[t].pc = "exec"
            /\ thr'[t].pc # "exec"
            /\ \/ thr[t].unit.func \notin Registry
               \/ /\ thr[t].unit.func \in {"getitem", "delitem"}
                  /\ thr[t].unit.args[1].key \notin DOMAIN data )
          => IF thr[t].unit.send = "none"
             THEN thr'[t].pc = "idle"
             ELSE /\ thr'[t].pc = "reply"
                  /\ thr'[t].result.kind = "exc"
                  /\ thr'[t].header.status =
                       IF thr[t].unit.func \in Registry THEN StatusError
                       ELSE StatusNotFound(thr[t].unit.func)]_vars

\* An unknown function and a getitem or delitem on an absent key have both been
\* answered.
C9_Witness ==
  /\ Len(dealerOut) = 3
  /\ \E i, j \in 2..3 :
       /\ FuncOf(dealerOut[i].rid) = "bogus"
       /\ dealerOut[i].header.status = StatusNotFound("bogus")
       /\ FuncOf(dealerOut[j].rid) \in {"getitem", "delitem"}
       /\ dealerOut[j].header.status = StatusError
       /\ dealerOut[j].payload = ExcV("KeyError")

\* C10: getitem and delitem for a key the store does not hold leave the store
\* as it was and are answered 'Error' with the exception as payload; the
\* thread, the pool and the listening loops go on.
C10_MissingKey ==
  /\ [][\A t \in Threads :
          ( /\ thr[t].pc = "exec"
            /\ thr[t].unit.func \in {"getitem", "delitem"}
            /\ Len(thr[t].unit.args) = 1
            /\ thr[t].unit.args[1].key \notin DOMAIN data
            /\ thr'[t].pc # "exec" )
          => /\ data' = data
             /\ IF thr[t].unit.send = "none"
                THEN thr'[t].pc = "idle"
                ELSE /\ thr'[t].pc = "reply"
                     /\ thr'[t].header.status = StatusError
                     /\ thr'[t].result = ExcV("KeyError")
             /\ poolState' = poolState
             /\ loopS' = loopS /\ loopW' = loopW
             /\ taskq' = taskq]_vars
  /\ [](\A i \in DOMAIN dealerOut :
          (dealerOut[i].rid # 0 /\ dealerOut[i].payload = ExcV("KeyError")
             /\ FuncOf(dealerOut[i].rid) \in {"getitem", "delitem"})
          => dealerOut[i].header.status = StatusError)

\* A getitem or delitem on an absent key was answered 'Error', and the
\* request after it was served and answered 'OK'.
C10_Witness ==
  /\ Len(dealerOut) = 3
  /\ dealerOut[2].rid = 1 /\ dealerOut[3].rid = 2
  /\ FuncOf(1) \in {"getitem", "delitem"}
  /\ dealerOut[2].header.status = StatusError
  /\ FuncOf(2) = "setitem"
  /\ dealerOut[3].header.status = StatusOK
  /\ data = [x |-> IntV(7)]

\* C5 as claimed: when the evaluator raises inside compute, the reply has
\* status 'Error' and the exception as payload.
C5_ErrorStatus ==
  [][\A t \in Threads :
       ( /\ thr[t].pc = "eval"
         /\ ~Evaluate(data, thr[t].unit.args[2]).ok
         /\ thr'[t].pc = "reply" )
       => /\ thr'[t].header.status = StatusError
          /\ thr'[t].result.kind = "exc"]_vars

\* C5 as amended: when the evaluator raises inside compute, compute returns
\* its record with the exception as the record's status, and the reply has
\* header status 'OK' and that record as payload; a compute request is
\* answered 'Error' only when collect raised.
C5_OutcomeCarriesFailure ==
  /\ [][\A t \in Threads :
          ( /\ thr[t].pc = "eval"
            /\ ~Evaluate(data, thr[t].unit.args[2]).ok
            /\ thr'[t].pc = "reply" )
          => /\ thr'[t].header.status = StatusOK
             /\ thr'[t].result = OutcomeV(thr[t].unit.args[1].key, "EvalError")]_vars
  /\ [](\A i \in DOMAIN dealerOut :
          (dealerOut[i].rid # 0 /\ FuncOf(dealerOut[i].rid) = "compute")
          => IF dealerOut[i].payload.kind = "outcome"
             THEN dealerOut[i].header.status = StatusOK
             ELSE /\ dealerOut[i].header.status = StatusError
                  /\ dealerOut[i].payload.kind = "exc")

\* A compute whose evaluator raised has been answered.
C5_Witness ==
  \E i \in DOMAIN dealerOut :
    /\ dealerOut[i].rid # 0
    /\ FuncOf(dealerOut[i].rid) = "compute"
    /\ sent[dealerOut[i].rid].payload.args[2].op = "raise"
    /\ dealerOut[i].header.status = StatusOK
    /\ dealerOut[i].payload = OutcomeV("z", "EvalError")

\* C6: compute stores under key only the value of an evaluation that
\* returned; when the evaluator raises the store is left as it was (a previous
\* entry for key included) and the record's status is not 'OK'.  So as long as
\* every compute sent has a task that raises, the store never holds "z".
C6_FailureIsolation ==
  /\ [][\A t \in Threads :
          (thr[t].pc = "eval" /\ thr'[t].pc # "eval")
          => LET e == Evaluate(data, thr[t].unit.args[2]) IN
             IF e.ok
             THEN data' = Put(data, thr[t].unit.args[1].key, e.result)
             ELSE /\ data' = data
                  /\ thr'[t].pc = "reply" => thr'[t].result.st # "OK"]_vars
  /\ []((\A r \in Rids : FuncOf(r) = "compute" =>
                           sent[r].payload.args[2].op = "raise")
          => "z" \notin DOMAIN data)

\* A first compute stored 3 under "z"; a second one, whose evaluator raised,
\* has been answered and "z" is still 3.
C6_Witness ==
  /\ Len(dealerOut) = 3
  /\ dealerOut[3].rid = 2
  /\ FuncOf(2) = "compute"
  /\ sent[2].payload.args[2].op = "raise"
  /\ dealerOut[3].payload = OutcomeV("z", "EvalError")
  /\ "z" \in DOMAIN data
  /\ data["z"] = IntV(3)

\* A delitem request for key k has reached a pool thread.
DelTaken(k) ==
  \E r \in Rids :
    /\ FuncOf(r) = "delitem"
    /\ sent[r].payload.args[1].key = k
    /\ ~Waiting(r)
    /\ \A i \in DOMAIN taskq : taskq[i].rid # r

\* C7 as claimed: the evaluator is invoked only when the store holds every key
\* of locations, and a compute that ends 'OK' leaves the result under key and
\* every key of locations in the store.
C7_DependenciesPresent ==
  \A t \in Threads :
    /\ thr[t].pc = "eval" =>
         \A k \in DOMAIN Locations(thr[t].unit) : k \in DOMAIN data
    /\ ( /\ thr[t].pc = "reply"
         /\ thr[t].unit.func = "compute"
         /\ thr[t].result.kind = "outcome"
         /\ thr[t].result.st = "OK" )
       => /\ thr[t].unit.args[1].key \in DOMAIN data
          /\ \A k \in DOMAIN Locations(thr[t].unit) : k \in DOMAIN data

\* C7 as amended: the evaluator is invoked only after collect has returned,
\* and then the store holds every key of locations that no concurrent delitem
\* request has removed; the evaluation that returns stores its result under
\* key in the same step.
C7_DependenciesUnlessDeleted ==
  /\ [](\A t \in Threads :
          thr[t].pc = "eval" =>
            /\ thr[t].socks = <<>> /\ thr[t].todo = {}
            /\ \A k \in DOMAIN Locations(thr[t].unit) :
                 k \in DOMAIN data \/ DelTaken(k))
  /\ [][\A t \in Threads :
          ( /\ thr[t].pc = "eval"
            /\ thr'[t].pc = "reply"
            /\ thr'[t].result.st = "OK" )
          => /\ thr[t].unit.args[1].key \in DOMAIN data'
             /\ data'[thr[t].unit.args[1].key] =
                  Evaluate(data, thr[t].unit.args[2]).result
             /\ \A k \in DOMAIN Locations(thr[t].unit) :
                  k \in DOMAIN data' \/ DelTaken(k)]_vars

\* A compute on an empty store has fetched "x" and "y" from the two peers,
\* evaluated its task and stored 3 under "z".
C7_Witness ==
  \E t \in Threads :
    /\ thr[t].pc = "reply"
    /\ thr[t].unit.func = "compute"
    /\ thr[t].result = OutcomeV("z", "OK")
    /\ Len(sent) = 1
    /\ data = [x |-> IntV(1), y |-> IntV(2), z |-> IntV(3)]

\* C8: when collect comes to a key the store holds, it opens no socket and
\* sends no request for it, and the store is left as it was.
C8_NoRefetch ==
  [][\A t \in Threads : \A k \in Keys :
       ( /\ thr[t].pc = "fanout"
         /\ k \in thr[t].todo
         /\ thr'[t].pc = "idle" \/ k \notin thr'[t].todo
         /\ k \in DOMAIN data )
       => /\ data' = data
          /\ wire' = wire
          /\ routerIn' = routerIn
          /\ thr'[t].pc \in {"fanout", "fanin"} => thr'[t].socks = thr[t].socks
          /\ \A w \in wire' : ~(w.sock = Sock(t, k))]_vars

\* A collect for "x" alone, on a store that holds "x", is over: nothing was
\* asked of a peer and "x" has the value it had.
C8_Witness ==
  /\ Len(sent) = 1
  /\ FuncOf(1) = "collect"
  /\ "x" \in DOMAIN sent[1].payload.args[1]
  /\ Replied(1)
  /\ data = [x |-> IntV(5)]
  /\ wire = {} /\ sockIn = {}

\* C2: every request taken off a channel that wants a reply is eventually
\* answered.
C2_ReplyGuarantee ==
  \A r \in 1..MaxReq :
    (r \in Rids /\ ~Waiting(r) /\ WantsReply(r)) ~> Replied(r)

\* Request r may change what the store holds under k: a setitem or delitem of
\* k, a compute that stores under k, a collect or compute that fetches k.
WritesKey(r, k) ==
  LET f == FuncOf(r)
      a == sent[r].payload.args
  IN \/ f \in {"setitem", "delitem"} /\ Len(a) >= 1 /\ a[1].key = k
     \/ f = "compute" /\ (a[1].key = k \/ k \in DOMAIN a[3])
     \/ f = "collect" /\ k \in DOMAIN a[1]

\* Request r1 is a setitem(k, v) and no other request sent writes k.
OnlySetitem(r1, k, v) ==
  /\ FuncOf(r1) = "setitem"
  /\ sent[r1].payload.args[1].key = k
  /\ sent[r1].payload.args[2] = v
  /\ \A r \in Rids \ {r1} : ~WritesKey(r, k)

\* C11 as claimed: a setitem(k, v) request followed on the same channel by a
\* getitem(k) request, with no other request writing k, has the getitem
\* answered 'OK' with v.
C11_RequestRoundTrip ==
  \A i \in DOMAIN dealerOut :
    LET r2 == dealerOut[i].rid IN
    (r2 # 0 /\ FuncOf(r2) = "getitem") =>
      \A r1 \in 1..(r2 - 1) : \A v \in {IntV(7)} :
        ( /\ sent[r1].src = sent[r2].src
          /\ OnlySetitem(r1, sent[r2].payload.args[1].key, v) )
        => /\ dealerOut[i].header.status = StatusOK
           /\ dealerOut[i].payload = v

\* C11 as amended: a getitem(k) executed after a setitem(k, v) request has
\* been answered, no other request writing k, returns v and is answered 'OK',
\* whether or not k held a value before the setitem; the setitem itself leaves
\* v under k.
C11_RoundTripAfterReply ==
  [][\A t \in Threads :
       (thr[t].pc = "exec" /\ thr'[t].pc # "exec") =>
         LET u == thr[t].unit IN
         /\ (u.func = "setitem" /\ Len(u.args) = 2) =>
              (u.args[1].key \in DOMAIN data' /\ data'[u.args[1].key] = u.args[2])
         /\ (u.func = "getitem" /\ Len(u.args) = 1) =>
              \A r1 \in Rids : \A v \in {IntV(7)} :
                ( /\ OnlySetitem(r1, u.args[1].key, v)
                  /\ Replied(r1) )
                => /\ data' = data
                   /\ u.send # "none" =>
                        /\ thr'[t].pc = "reply"
                        /\ thr'[t].header.status = StatusOK
                        /\ thr'[t].result = v]_vars

\* A setitem of "x" and then a getitem of "x" have both been answered, the
\* getitem with the value set.
C11_Witness ==
  /\ Len(sent) = 2 /\ Len(dealerOut) = 3
  /\ FuncOf(1) = "setitem" /\ FuncOf(2) = "getitem"
  /\ dealerOut[2].rid = 1 /\ dealerOut[3].rid = 2
  /\ dealerOut[3].header.status = StatusOK
  /\ dealerOut[3].payload = IntV(7)

\* C12: at no time are two threads inside the send_multipart of the same
\* channel, so the frames of two messages on a channel are never interleaved:
\* a thread that is sending holds the lock.
C12_WriteSerialization ==
  /\ \A t \in Threads : thr[t].pc = "sending" => lock = t
  /\ \A t1, t2 \in Threads :
       ( /\ thr[t1].pc = "sending" /\ thr[t2].pc = "sending"
         /\ SinkChannel(thr[t1].unit) = SinkChannel(thr[t2].unit) )
       => t1 = t2

\* One thread is sending on the dealer while another has its reply for the
\* dealer ready and waits.
C12_Witness ==
  \E t1, t2 \in Threads :
    /\ thr[t1].pc = "sending" /\ thr[t2].pc = "reply"
    /\ SinkChannel(thr[t1].unit) = "dealer"
    /\ SinkChannel(thr[t2].unit) = "dealer"

\* C13 as claimed: each channel has a lock of its own, so a thread with a
\* reply for one channel is never kept waiting by a thread that is sending on
\* the other channel: if nobody is sending on its channel, it can send.
C13_IndependentLocks ==
  \A t \in Threads :
    ( /\ thr[t].pc = "reply"
      /\ \A o \in Threads \ {t} :
           thr[o].pc = "sending" =>
             SinkChannel(thr[o].unit) # SinkChannel(thr[t].unit) )
    => ENABLED AcquireLock(t)

\* C14 as claimed: a call of close() returns only when every unit handed to
\* the pool has been executed to its end (the queue is empty, no thread is
\* inside a unit), and no unit is dropped on the way: a unit leaves the queue
\* only to be executed, and a thread leaves a unit only after it has sent the
\* reply or when there is no sink.
C14_ShutdownDrains ==
  /\ [][\A c \in Closers :
          (closer[c] # "done" /\ closer'[c] = "done")
          => (taskq = <<>> /\ \A t \in Threads : thr[t].pc = "idle")]_vars
  /\ [][\/ taskq' = taskq
        \/ \E i \in 1..Len(taskq') : taskq' = Append(taskq, taskq'[i])
        \/ /\ taskq # <<>> /\ taskq' = Tail(taskq)
           /\ \E t \in Threads :
                thr[t].pc = "idle" /\ thr'[t].pc = "exec" /\ thr'[t].unit = Head(taskq)]_vars
  /\ [][\A t \in Threads :
          (thr[t].pc # "idle" /\ thr'[t].pc = "idle")
          => (thr[t].pc = "sending" \/ thr[t].unit.send = "none")]_vars

\* C16 as claimed: the lifecycle goes from run to closed and never back; a
\* call of close() that finds the pool closed changes nothing of the node;
\* and every call that has returned did so with all the pool's work finished.
C16_CloseIdempotent ==
  /\ [][status = "closed" => status' = "closed"]_vars
  /\ [][poolState # "RUN" => poolState' = poolState]_vars
  /\ [][\A c \in Closers :
          (closer[c] = "none" /\ closer'[c] # "none" /\ poolState # "RUN")
          => UNCHANGED <<status, poolState, data, taskq, thr, loopS, loopW,
                         dealerOut, routerOut, lock>>]_vars
  /\ [](\A c \in Closers :
          closer[c] = "done"
          => (taskq = <<>> /\ \A t \in Threads : thr[t].pc = "idle"))

\* C15 as claimed: a message that unpack_function cannot unpack (its payload
\* names no function, or a peer's header gives no address) does not end the
\* loop that received it, and a unit is handed to the pool that will answer
\* it with status 'Error'.
C15_DecodeFailureHandled ==
  /\ [][( /\ dealerIn # <<>> /\ dealerIn' = Tail(dealerIn)
          /\ ~Decodes(Head(dealerIn), FALSE) )
        => /\ loopS' = "check"
           /\ Len(taskq') = Len(taskq) + 1]_vars
  /\ [][( /\ routerIn # <<>> /\ routerIn' = Tail(routerIn)
          /\ ~Decodes(Head(routerIn), TRUE) )
        => /\ loopW' = "check"
           /\ Len(taskq') = Len(taskq) + 1]_vars

\* C17: once self.status is 'closed', a loop that makes its test leaves the
\* loop, and so does a loop whose poll finds no message (the poll times out
\* and the test is made); no receive blocks, so both loops come to an end.
C17_LoopsStop ==
  /\ [][( /\ status = "closed" /\ loopS' # loopS
          /\ loopS = "check" \/ (loopS = "poll" /\ dealerIn = <<>>) )
        => loopS' = "stopped"]_vars
  /\ [][( /\ status = "closed" /\ loopW' # loopW
          /\ loopW = "check" \/ (loopW = "poll" /\ routerIn = <<>>) )
        => loopW' = "stopped"]_vars
  /\ (status = "closed") ~>
       (loopS \notin {"check", "poll"} /\ loopW \notin {"check", "poll"})

\* close() was called with a request served before it, and both loops have
\* left their loop by the test.
C17_Witness ==
  /\ status = "closed"
  /\ loopS = "stopped" /\ loopW = "stopped"
  /\ Len(sent) >= 1 /\ Replied(1)

\* C18 as claimed: what collect stores under a key is a value a peer held
\* under it; the payload of a reply whose status is not 'OK', an exception, is
\* never stored, so the store never holds an exception as a value.
C18_OnlyPeerValues ==
  \A k \in DOMAIN data : data[k].kind # "exc"

\* C19 as claimed: with every peer answering, every collect and compute unit
\* a pool thread has begun is executed to its end, also when the node is
\* named as a location of a key it does not hold.
C19_NoSaturationDeadlock ==
  \A t \in Threads :
    (thr[t].pc # "idle" /\ thr[t].unit.func \in {"collect", "compute"})
      ~> (thr[t].pc = "idle")

\* C20 as claimed: a message a loop takes off its channel, and can unpack, is
\* handed to the pool and the loop goes back to its test, whatever close()
\* does meanwhile.
C20_NoLostMessage ==
  /\ [][( /\ dealerIn # <<>> /\ dealerIn' = Tail(dealerIn)
          /\ Decodes(Head(dealerIn), FALSE) )
        => /\ taskq' = Append(taskq, UnpackFunction(Head(dealerIn), "scheduler", NoSock))
           /\ loopS' = "check"]_vars
  /\ [][( /\ routerIn # <<>> /\ routerIn' = Tail(routerIn)
          /\ Decodes(Head(routerIn), TRUE) )
        => /\ taskq' = Append(taskq, UnpackFunction(Head(routerIn), "worker",
                                                   Head(routerIn).address))
           /\ loopW' = "check"]_vars

====
